---- MODULE Spec2Model ----
(***************************************************************************)
(* A model of libpag's BitmapSequenceReader (the incremental decode-and-   *)
(* cache engine of bitmap sequences) and of tgfx's GLYUVTextureEffect      *)
(* (the per-draw uniform state of the YUV colour conversion).              *)
(*                                                                         *)
(* The canvas is the reader's pixelBuffer, a row-major raster of           *)
(* CanvasW x CanvasH pixels addressed linearly, one cell per 4-byte pixel. *)
(* A decoded patch writes codec.height rows of codec.width pixels starting *)
(* at the linear offset rowBytes * y + x * 4, as readPixels does with the  *)
(* canvas's row stride.                                                    *)
(***************************************************************************)
EXTENDS Integers, Sequences, FiniteSets, TLC

VARIABLES
    sequence,         \* BitmapSequence::frames, immutable after construction
    pixelBuffer,      \* the canvas: its pixels, or nullptr when allocation failed
    lastDecodeFrame,  \* the frame the canvas holds, NoFrame when stale
    call,             \* the last finished onMakeBuffer call, as its caller saw it
    locker,           \* the owner of BitmapSequenceReader::locker, or Unlocked
    thread,           \* per calling thread: its position in onMakeBuffer and locals
    observed,         \* what the polling observer last read through the handle
    effect            \* GLYUVTextureEffect: the caches and the program's uniforms

vars == <<sequence, pixelBuffer, lastDecodeFrame, call, locker, thread, observed, effect>>

----------------------------------------------------------------------------
(* Bounds of the model *)

CanvasW == 2
CanvasH == 1
NumFrames == 2
MaxPatches == 2

----------------------------------------------------------------------------
(* The data model of a bitmap sequence *)

NoFrame == -1
Transparent == 0

Frames == 0 .. (NumFrames - 1)
Pixels == 0 .. (CanvasW * CanvasH - 1)

\* An encoded patch (BitmapRect): its destination and what its fileBytes decode
\* to. width = 0 stands for bytes ImageCodec::MakeFrom returns no codec for (an
\* empty frame). Patches lie inside the canvas.
EmptyRect == [x |-> 0, y |-> 0, width |-> 0, height |-> 0]

BitmapRects ==
    { r \in [x : 0 .. (CanvasW - 1), y : 0 .. (CanvasH - 1),
             width : 1 .. CanvasW, height : 1 .. CanvasH] :
        r.x + r.width <= CanvasW /\ r.y + r.height <= CanvasH }
    \cup {EmptyRect}

BitmapLists == UNION { [1 .. n -> BitmapRects] : n \in 0 .. MaxPatches }

BitmapFrames == [isKeyframe : BOOLEAN, bitmaps : BitmapLists]

Sequences == [Frames -> BitmapFrames]

\* The pixel value the j-th patch of a frame decodes to: every patch has content
\* of its own, so two canvases agree only if the same patches painted them.
PatchColor(frame, j) == frame * MaxPatches + j

Colors == {Transparent} \cup { PatchColor(f, j) : f \in Frames, j \in 1 .. MaxPatches }

\* What can go wrong in one call: the patch whose readPixels fails, if any, and
\* whether the failing read had written its pixels before it failed.
NoFailure == <<NoFrame, 0>>
Failures(frames) ==
    ({NoFailure} \X {FALSE})
    \cup ({ <<f, j>> \in Frames \X (1 .. MaxPatches) :
               j <= Len(frames[f].bitmaps) /\ frames[f].bitmaps[j].width > 0 }
          \X BOOLEAN)

----------------------------------------------------------------------------
(* Pixmap and ImageCodec *)

\* Pixmap::eraseAll
eraseAll == [i \in Pixels |-> Transparent]

\* PixelBuffer::Make: a raster of the sequence's size, or nullptr when the
\* allocation fails; the constructor erases what it got. handle is the object
\* the shared pointer refers to.
NewBuffer == [allocated |-> TRUE, handle |-> "constructed", pixels |-> eraseAll]
NullBuffer == [allocated |-> FALSE, handle |-> "nullptr", pixels |-> eraseAll]

\* ImageCodec::MakeFrom: the codec of a patch, nullptr for an empty frame
NullCodec == [valid |-> FALSE, width |-> 0, height |-> 0]

\* a codec of no pixels for an empty frame, in place of no codec
MakeFromZeroSized(bitmapRect) ==
    [valid |-> TRUE, width |-> bitmapRect.width, height |-> bitmapRect.height]

MakeFrom(bitmapRect) ==
    IF bitmapRect.width = 0 THEN NullCodec
    ELSE [valid |-> TRUE, width |-> bitmapRect.width, height |-> bitmapRect.height]

\* the pixel offset of a patch in the canvas (line 60, in 4-byte pixels)
offset(bitmapRect) == CanvasW * bitmapRect.y + bitmapRect.x

\* codec->readPixels(bitmap.info(), pixels + offset): rows of the codec's width,
\* one canvas row stride apart
readPixels(bitmap, codec, off, color) ==
    [i \in Pixels |->
        IF \E r \in 0 .. (codec.height - 1), c \in 0 .. (codec.width - 1) :
               i = off + r * CanvasW + c
        THEN color ELSE bitmap[i]]

\* the erase only for a patch smaller than the canvas in both directions
clearScreenBothSmaller(firstRead, bitmapFrame, codec) ==
    firstRead /\ bitmapFrame.isKeyframe
    /\ codec.width < CanvasW /\ codec.height < CanvasH

\* the erase before every patch of a key frame that is not of the canvas's size
clearScreenEveryPatch(firstRead, bitmapFrame, codec) ==
    bitmapFrame.isKeyframe
    /\ ~(codec.width = CanvasW /\ codec.height = CanvasH)

\* the condition of line 55-56: erase before the first decoded patch of a key
\* frame that is not of the canvas's size
clearScreen(firstRead, bitmapFrame, codec) ==
    firstRead /\ bitmapFrame.isKeyframe
    /\ ~(codec.width = CanvasW /\ codec.height = CanvasH)

----------------------------------------------------------------------------
(* BitmapSequenceReader::findStartFrame *)

RECURSIVE scanStartFrame(_, _, _)
scanStartFrame(frames, last, frame) ==
    IF frame < 0 THEN 0
    ELSE IF frame = last + 1 \/ frames[frame].isKeyframe THEN frame
    ELSE scanStartFrame(frames, last, frame - 1)

\* the scan from frame 0 upward: the first frame that fits, not the last
findStartFrameFromZero(frames, last, targetFrame) ==
    LET fits == { frame \in 0 .. targetFrame :
                      frame = last + 1 \/ frames[frame].isKeyframe }
    IN  IF fits = {} THEN 0 ELSE CHOOSE frame \in fits : \A g \in fits : frame <= g

\* the frame after the one held taken as the start without the scan
findStartFrameResume(frames, last, targetFrame) ==
    IF last # NoFrame THEN last + 1 ELSE scanStartFrame(frames, last, targetFrame)

\* the scan with the resume point one frame early
findStartFrameOffByOne(frames, last, targetFrame) ==
    scanStartFrame(frames, last - 1, targetFrame)

findStartFrame(frames, last, targetFrame) == scanStartFrame(frames, last, targetFrame)

----------------------------------------------------------------------------
(* BitmapSequenceReader::onMakeBuffer, the whole call under the lock *)

\* the loop over the patches of one frame (lines 49-68); st is the canvas, whether
\* the call is still running, the readPixels calls made and the frames visited
RECURSIVE readBitmaps(_, _, _, _, _, _, _)
readBitmaps(frames, st, frame, j, firstRead, fail, wrote) ==
    IF j > Len(frames[frame].bitmaps) THEN st
    ELSE LET bitmapRect == frames[frame].bitmaps[j]
             codec == MakeFrom(bitmapRect)
         IN  IF codec = NullCodec
             THEN readBitmaps(frames, st, frame, j + 1, firstRead, fail, wrote)
             ELSE LET cleared == IF clearScreen(firstRead, frames[frame], codec)
                                 THEN eraseAll ELSE st.bitmap
                      painted == readPixels(cleared, codec, offset(bitmapRect),
                                            PatchColor(frame, j))
                  IN  IF fail = <<frame, j>>
                      THEN [st EXCEPT !.bitmap = IF wrote THEN painted ELSE cleared,
                                      !.decodes = @ + 1,
                                      !.ok = FALSE]
                      ELSE readBitmaps(frames,
                                       [st EXCEPT !.bitmap = painted, !.decodes = @ + 1],
                                       frame, j + 1, FALSE, fail, wrote)

\* the loop over the frames startFrame .. targetFrame (lines 46-69)
RECURSIVE replayFrames(_, _, _, _, _, _)
replayFrames(frames, st, frame, targetFrame, fail, wrote) ==
    IF frame > targetFrame \/ ~st.ok THEN st
    ELSE replayFrames(frames,
                      readBitmaps(frames, [st EXCEPT !.replayed = @ \cup {frame}],
                                  frame, 1, TRUE, fail, wrote),
                      frame + 1, targetFrame, fail, wrote)

\* line 36: the canvas already holds the frame asked for (and two ways to get
\* the comparison wrong)
fastPathNever(last, targetFrame) == FALSE

fastPathAtLeast(last, targetFrame) == last >= targetFrame

fastPath(last, targetFrame) == last = targetFrame

\* line 43: the marker while the replay runs, and after it failed (staleKept:
\* the invalidation left out)
staleKept(last) == last

stale(last) == NoFrame

\* a call that makes a new buffer for every replay
makeBufferReallocated(frames, buffer, last, targetFrame, fail, wrote) ==
    IF fastPath(last, targetFrame)
    THEN [bitmap |-> buffer, last |-> last, fastPath |-> TRUE,
          result |-> IF buffer.allocated THEN "buffer" ELSE "null",
          startFrame |-> NoFrame, decodes |-> 0, replayed |-> {}, failed |-> FALSE]
    ELSE IF ~buffer.allocated
    THEN [bitmap |-> buffer, last |-> last, fastPath |-> FALSE, result |-> "null",
          startFrame |-> NoFrame, decodes |-> 0, replayed |-> {}, failed |-> FALSE]
    ELSE LET startFrame == findStartFrame(frames, last, targetFrame)
             st == replayFrames(frames,
                                [bitmap |-> buffer.pixels, ok |-> TRUE, decodes |-> 0,
                                 replayed |-> {}],
                                startFrame, targetFrame, fail, wrote)
         IN  [bitmap |-> [buffer EXCEPT !.pixels = st.bitmap, !.handle = "reallocated"],
              last |-> IF st.ok THEN targetFrame ELSE stale(last),
              fastPath |-> FALSE,
              result |-> IF st.ok THEN "buffer" ELSE "null",
              startFrame |-> startFrame, decodes |-> st.decodes,
              replayed |-> st.replayed, failed |-> ~st.ok]

\* the result of a call on a reader in the state (buffer, last): the canvas and
\* marker it leaves and what it returns
makeBuffer(frames, buffer, last, targetFrame, fail, wrote) ==
    IF fastPath(last, targetFrame)
    THEN [bitmap |-> buffer, last |-> last, fastPath |-> TRUE,
          result |-> IF buffer.allocated THEN "buffer" ELSE "null",
          startFrame |-> NoFrame, decodes |-> 0, replayed |-> {}, failed |-> FALSE]
    ELSE IF ~buffer.allocated
    THEN [bitmap |-> buffer, last |-> last, fastPath |-> FALSE, result |-> "null",
          startFrame |-> NoFrame, decodes |-> 0, replayed |-> {}, failed |-> FALSE]
    ELSE LET startFrame == findStartFrame(frames, last, targetFrame)
             st == replayFrames(frames,
                                [bitmap |-> buffer.pixels, ok |-> TRUE, decodes |-> 0,
                                 replayed |-> {}],
                                startFrame, targetFrame, fail, wrote)
         IN  [bitmap |-> [buffer EXCEPT !.pixels = st.bitmap],
              last |-> IF st.ok THEN targetFrame ELSE stale(last),
              fastPath |-> FALSE,
              result |-> IF st.ok THEN "buffer" ELSE "null",
              startFrame |-> startFrame, decodes |-> st.decodes,
              replayed |-> st.replayed, failed |-> ~st.ok]

\* call also keeps the target and the result of the call before it
NoCall == [targetFrame |-> NoFrame, result |-> "none", fastPath |-> FALSE,
           startFrame |-> NoFrame, decodes |-> 0, replayed |-> {}, failed |-> FALSE,
           prevTarget |-> NoFrame, prevResult |-> "none"]

onMakeBuffer(targetFrame, fail, wrote) ==
    \E r \in {makeBuffer(sequence, pixelBuffer, lastDecodeFrame, targetFrame, fail, wrote)} :
        /\ pixelBuffer' = r.bitmap
        /\ lastDecodeFrame' = r.last
        /\ call' = [targetFrame |-> targetFrame, result |-> r.result,
                    fastPath |-> r.fastPath, startFrame |-> r.startFrame,
                    decodes |-> r.decodes, replayed |-> r.replayed, failed |-> r.failed,
                    prevTarget |-> call.targetFrame, prevResult |-> call.result]
        /\ UNCHANGED <<sequence, locker, thread, observed, effect>>

----------------------------------------------------------------------------
(* The reader after construction, and its callers *)

Unlocked == "unlocked"
NoThreads == <<>>
NothingObserved == [seen |-> FALSE, pixels |-> eraseAll, replaying |-> FALSE,
                    entry |-> eraseAll, final |-> eraseAll]
NoEffect == "none"

\* sequence->composition->staticContent() (line 28): the content of the
\* sequence never changes after its first frame, so that no frame after the
\* first has a patch that decodes to an image. PixelBuffer::Make is given it as
\* the permission to share the buffer's memory (line 29).
staticContent(frames) ==
    \A f \in Frames \ {0} :
        \A j \in 1 .. Len(frames[f].bitmaps) : MakeFrom(frames[f].bitmaps[j]) = NullCodec

\* the constructor: the canvas is allocated (or not) and erased
InitReader ==
    /\ sequence \in Sequences
    /\ pixelBuffer \in {NewBuffer, NullBuffer}
    /\ lastDecodeFrame = NoFrame
    /\ call = NoCall

Init ==
    /\ InitReader
    /\ locker = Unlocked
    /\ thread = NoThreads
    /\ observed = NothingObserved
    /\ effect = NoEffect

\* callers ask for frames of the sequence, in any order
Buffer == \E targetFrame \in Frames, failure \in Failures(sequence) :
              onMakeBuffer(targetFrame, failure[1], failure[2])

Next == Buffer

Spec == Init /\ [][Next]_vars

----------------------------------------------------------------------------
(* Callers that also ask for frames outside the sequence *)

\* one before "none" up to one past the last frame
Targets == (NoFrame - 1) .. NumFrames

\* A target past the last frame makes findStartFrame (line 82) and the replay
\* (line 47) index frames past its end, unless the call returns before: that
\* read is undefined. garbage is the isKeyframe the scan reads there; the replay
\* of the frame read there crashes, fails or goes through.
IndexesPastEnd(targetFrame) ==
    /\ targetFrame >= NumFrames
    /\ ~fastPath(lastDecodeFrame, targetFrame)
    /\ pixelBuffer.allocated

Outcomes == {"crash", "null", "buffer"}

onMakeBufferPastEnd(targetFrame, garbage, outcome) ==
    LET startFrame == IF garbage \/ targetFrame = lastDecodeFrame + 1
                      THEN targetFrame
                      ELSE findStartFrame(sequence, lastDecodeFrame, NumFrames - 1)
        st == replayFrames(sequence,
                           [bitmap |-> pixelBuffer.pixels, ok |-> TRUE, decodes |-> 0,
                            replayed |-> {}],
                           startFrame, NumFrames - 1, NoFailure, FALSE)
    IN  /\ pixelBuffer' = [pixelBuffer EXCEPT !.pixels = st.bitmap]
        /\ lastDecodeFrame' = IF outcome = "buffer" THEN targetFrame ELSE stale(lastDecodeFrame)
        /\ call' = [targetFrame |-> targetFrame, result |-> outcome,
                    fastPath |-> FALSE, startFrame |-> startFrame,
                    decodes |-> st.decodes, replayed |-> st.replayed,
                    failed |-> outcome = "null",
                    prevTarget |-> call.targetFrame, prevResult |-> call.result]
        /\ UNCHANGED <<sequence, locker, thread, observed, effect>>

Running == call.result # "crash"

BufferAny == \E targetFrame \in Targets, failure \in Failures(sequence) :
                 /\ Running
                 /\ ~IndexesPastEnd(targetFrame)
                 /\ onMakeBuffer(targetFrame, failure[1], failure[2])

BufferPastEnd == \E targetFrame \in Targets, garbage \in BOOLEAN, outcome \in Outcomes :
                     /\ Running
                     /\ IndexesPastEnd(targetFrame)
                     /\ onMakeBufferPastEnd(targetFrame, garbage, outcome)

\* sequences with at most one patch a frame
ShortSequences == { s \in Sequences : \A f \in Frames : Len(s[f].bitmaps) <= 1 }

InitAny == Init /\ sequence \in ShortSequences

NextAny == BufferAny \/ BufferPastEnd

SpecAny == InitAny /\ [][NextAny]_vars

----------------------------------------------------------------------------
(* onMakeBuffer step by step, called from several threads, and an observer *)
(* that reads the canvas through the handle a call returned                *)

Callers == {"decode", "prefetch"}

Idle == [pc |-> "idle", targetFrame |-> NoFrame, startFrame |-> NoFrame,
         frame |-> NoFrame, j |-> 0, firstRead |-> FALSE, entry |-> eraseAll]

\* the readPixels calls a replay made from startFrame up to, and without, the
\* j-th patch of frame
RECURSIVE decodesUpTo(_, _, _)
decodesUpTo(startFrame, frame, j) ==
    IF frame < startFrame THEN 0
    ELSE Cardinality({ k \in 1 .. (j - 1) :
                          k <= Len(sequence[frame].bitmaps)
                          /\ MakeFrom(sequence[frame].bitmaps[k]) # NullCodec })
         + (IF frame = startFrame THEN 0
            ELSE decodesUpTo(startFrame, frame - 1,
                             Len(sequence[frame - 1].bitmaps) + 1))

\* the thread starts a call: it is about to take the lock (line 35)
CallBuffer(t, targetFrame) ==
    /\ thread[t].pc = "idle"
    /\ thread' = [thread EXCEPT ![t] = [Idle EXCEPT !.pc = "lock",
                                                    !.targetFrame = targetFrame]]
    /\ UNCHANGED <<sequence, pixelBuffer, lastDecodeFrame, call, locker, observed, effect>>

\* a guard that does not wait for the lock's owner
LockNoWait(t) ==
    /\ thread[t].pc = "lock"
    /\ locker' = t
    /\ thread' = [thread EXCEPT ![t].pc = "enter"]
    /\ UNCHANGED <<sequence, pixelBuffer, lastDecodeFrame, call, observed, effect>>

\* std::lock_guard autoLock(locker) (line 35)
Lock(t) ==
    /\ thread[t].pc = "lock"
    /\ locker = Unlocked
    /\ locker' = t
    /\ thread' = [thread EXCEPT ![t].pc = "enter"]
    /\ UNCHANGED <<sequence, pixelBuffer, lastDecodeFrame, call, observed, effect>>

\* a return that leaves the lock with the thread
ReturnKeepsLock(t, result, isFast, decodes, replayed, failed) ==
    /\ locker' = locker
    /\ thread' = [thread EXCEPT ![t] = Idle]
    /\ call' = [targetFrame |-> thread[t].targetFrame, result |-> result,
                fastPath |-> isFast, startFrame |-> thread[t].startFrame,
                decodes |-> decodes, replayed |-> replayed, failed |-> failed,
                prevTarget |-> call.targetFrame, prevResult |-> call.result]

\* every return statement: the lock_guard releases the lock
Return(t, result, isFast, decodes, replayed, failed) ==
    /\ locker' = Unlocked
    /\ thread' = [thread EXCEPT ![t] = Idle]
    /\ call' = [targetFrame |-> thread[t].targetFrame, result |-> result,
                fastPath |-> isFast, startFrame |-> thread[t].startFrame,
                decodes |-> decodes, replayed |-> replayed, failed |-> failed,
                prevTarget |-> call.targetFrame, prevResult |-> call.result]

\* lines 36-45: the fast path, the null canvas, or the start of the replay
Enter(t) ==
    /\ thread[t].pc = "enter"
    /\ IF fastPath(lastDecodeFrame, thread[t].targetFrame)
       THEN /\ Return(t, IF pixelBuffer.allocated THEN "buffer" ELSE "null",
                      TRUE, 0, {}, FALSE)
            /\ UNCHANGED <<pixelBuffer, lastDecodeFrame>>
       ELSE IF ~pixelBuffer.allocated
       THEN /\ Return(t, "null", FALSE, 0, {}, FALSE)
            /\ UNCHANGED <<pixelBuffer, lastDecodeFrame>>
       ELSE LET startFrame == findStartFrame(sequence, lastDecodeFrame,
                                             thread[t].targetFrame)
            IN  /\ lastDecodeFrame' = stale(lastDecodeFrame)
                /\ thread' = [thread EXCEPT ![t].pc = "frame",
                                            ![t].startFrame = startFrame,
                                            ![t].frame = startFrame,
                                            ![t].j = 1,
                                            ![t].firstRead = TRUE,
                                            ![t].entry = pixelBuffer.pixels]
                /\ UNCHANGED <<pixelBuffer, call, locker>>
    /\ UNCHANGED <<sequence, observed, effect>>

\* lines 46-59: the loop heads, the codec of the next patch and the erase; after
\* the last frame, lines 70-71
Frame(t) ==
    LET me == thread[t]
    IN  /\ me.pc = "frame"
        /\ IF me.frame > me.targetFrame
           THEN /\ lastDecodeFrame' = me.targetFrame
                /\ Return(t, "buffer", FALSE,
                          decodesUpTo(me.startFrame, me.targetFrame,
                                      Len(sequence[me.targetFrame].bitmaps) + 1),
                          me.startFrame .. me.targetFrame, FALSE)
                /\ UNCHANGED pixelBuffer
           ELSE IF me.j > Len(sequence[me.frame].bitmaps)
           THEN /\ thread' = [thread EXCEPT ![t].frame = me.frame + 1,
                                            ![t].j = 1,
                                            ![t].firstRead = TRUE]
                /\ UNCHANGED <<pixelBuffer, lastDecodeFrame, call, locker>>
           ELSE LET codec == MakeFrom(sequence[me.frame].bitmaps[me.j])
                IN  IF codec = NullCodec
                    THEN /\ thread' = [thread EXCEPT ![t].j = me.j + 1]
                         /\ UNCHANGED <<pixelBuffer, lastDecodeFrame, call, locker>>
                    ELSE /\ pixelBuffer' =
                                IF clearScreen(me.firstRead, sequence[me.frame], codec)
                                THEN [pixelBuffer EXCEPT !.pixels = eraseAll]
                                ELSE pixelBuffer
                         /\ thread' = [thread EXCEPT ![t].pc = "read"]
                         /\ UNCHANGED <<lastDecodeFrame, call, locker>>
        /\ UNCHANGED <<sequence, observed, effect>>

\* lines 60-67: readPixels into the canvas, and the return when it fails
Read(t, ok, wrote) ==
    LET me == thread[t]
        bitmapRect == sequence[me.frame].bitmaps[me.j]
        painted == readPixels(pixelBuffer.pixels, MakeFrom(bitmapRect),
                              offset(bitmapRect), PatchColor(me.frame, me.j))
    IN  /\ me.pc = "read"
        /\ IF ok
           THEN /\ pixelBuffer' = [pixelBuffer EXCEPT !.pixels = painted]
                /\ thread' = [thread EXCEPT ![t].pc = "frame",
                                            ![t].j = me.j + 1,
                                            ![t].firstRead = FALSE]
                /\ UNCHANGED <<call, locker>>
           ELSE /\ pixelBuffer' = IF wrote THEN [pixelBuffer EXCEPT !.pixels = painted]
                                  ELSE pixelBuffer
                /\ Return(t, "null", FALSE,
                          decodesUpTo(me.startFrame, me.frame, me.j + 1),
                          me.startFrame .. me.frame, TRUE)
        /\ UNCHANGED <<sequence, lastDecodeFrame, observed, effect>>

\* The observer holds the handle a call returned and reads the canvas through
\* it, without the lock: what it sees, and, when a replay is under way, the
\* canvas that replay started from and the one it is heading for.
Replaying == { t \in Callers : thread[t].pc \in {"frame", "read"} }

Observe ==
    /\ call.result = "buffer" \/ call.prevResult = "buffer"
    /\ observed' =
          IF Replaying = {}
          THEN [seen |-> TRUE, pixels |-> pixelBuffer.pixels, replaying |-> FALSE,
                entry |-> pixelBuffer.pixels, final |-> pixelBuffer.pixels]
          ELSE LET me == thread[CHOOSE t \in Replaying : TRUE]
               IN  [seen |-> TRUE, pixels |-> pixelBuffer.pixels, replaying |-> TRUE,
                    entry |-> me.entry,
                    final |-> replayFrames(sequence,
                                           [bitmap |-> me.entry, ok |-> TRUE,
                                            decodes |-> 0, replayed |-> {}],
                                           me.startFrame, me.targetFrame,
                                           NoFailure, FALSE).bitmap]
    /\ UNCHANGED <<sequence, pixelBuffer, lastDecodeFrame, call, locker, thread, effect>>

InitThreads ==
    /\ InitReader
    /\ sequence \in ShortSequences
    /\ locker = Unlocked
    /\ thread = [t \in Callers |-> Idle]
    /\ observed = NothingObserved
    /\ effect = NoEffect

NextThreads ==
    \/ \E t \in Callers, targetFrame \in Frames : CallBuffer(t, targetFrame)
    \/ \E t \in Callers : Lock(t)
    \/ \E t \in Callers : Enter(t)
    \/ \E t \in Callers : Frame(t)
    \/ \E t \in Callers, ok \in BOOLEAN, wrote \in BOOLEAN : Read(t, ok, wrote)
    \/ Observe

SpecThreads == InitThreads /\ [][NextThreads]_vars

\* A thread the scheduler runs goes on with its call: it takes the lock when
\* the lock is free and executes the next statements. Every thread that can
\* go on is run in the end; std::mutex grants the lock in no order, so a
\* thread waiting for it has no more than that.
Run(t) ==
    \/ Lock(t)
    \/ Enter(t)
    \/ Frame(t)
    \/ \E ok \in BOOLEAN, wrote \in BOOLEAN : Read(t, ok, wrote)

NextFair ==
    \/ \E t \in Callers, targetFrame \in Frames : CallBuffer(t, targetFrame)
    \/ \E t \in Callers : Run(t)

SpecFair == InitThreads /\ [][NextFair]_vars /\ \A t \in Callers : WF_vars(Run(t))

----------------------------------------------------------------------------
(* GLYUVTextureEffect::onSetData *)

\* the conversion matrices, column by column, in millionths
ColorConversion601LimitRange ==
    <<1164384, 1164384, 1164384, 0, -391762, 2017232, 1596027, -812968, 0>>

ColorConversion601FullRange ==
    <<1000000, 1000000, 1000000, 0, -344136, 1772000, 1402000, -714136, 0>>

ColorConversion709LimitRange ==
    <<1164384, 1164384, 1164384, 0, -213249, 2112402, 1792741, -532909, 0>>

ColorConversion709FullRange ==
    <<1000000, 1000000, 1000000, 0, -187324, 1855600, 1574800, -468124, 0>>

ColorConversion2020LimitRange ==
    <<1164384, 1164384, 1164384, 0, -187326, 2141772, 1678674, -650424, 0>>

ColorConversion2020FullRange ==
    <<1000000, 1000000, 1000000, 0, -164553, 1881400, 1474600, -571353, 0>>

ColorConversionJPEGFullRange ==
    <<1000000, 1000000, 1000000, 0, -344136, 1772000, 1402000, -714136, 0>>

\* YUVColorSpace, and a value the switch has no case for
YUVColorSpaces == {"BT601_LIMITED", "BT601_FULL", "BT709_LIMITED", "BT709_FULL",
                   "BT2020_LIMITED", "BT2020_FULL", "JPEG_FULL"}
UnrecognizedSpace == "UNRECOGNIZED"
ColorSpaceTags == YUVColorSpaces \cup {UnrecognizedSpace}

\* a uniform nothing was uploaded to, and a cache that holds nothing
NoMatrix == << >>
NoPoint == << >>
NoColorSpace == "NONE"

\* the texture coordinates getTextureCoord gives for the alpha origins of the
\* textures drawn
AlphaStarts == {<<0, 1>>, <<1, 0>>, <<1, 1>>}

\* the switch with the limited and the full range of BT709 exchanged
uploadedMatrixSwapped(colorSpace) ==
    CASE colorSpace = "BT601_LIMITED" -> ColorConversion601LimitRange
      [] colorSpace = "BT601_FULL" -> ColorConversion601FullRange
      [] colorSpace = "BT709_LIMITED" -> ColorConversion709FullRange
      [] colorSpace = "BT709_FULL" -> ColorConversion709LimitRange
      [] colorSpace = "BT2020_LIMITED" -> ColorConversion2020LimitRange
      [] colorSpace = "BT2020_FULL" -> ColorConversion2020FullRange
      [] colorSpace = "JPEG_FULL" -> ColorConversionJPEGFullRange
      [] OTHER -> NoMatrix

\* the switch of lines 119-143: the matrix setMatrix3f is called with, NoMatrix
\* for the default case, which calls nothing
uploadedMatrix(colorSpace) ==
    CASE colorSpace = "BT601_LIMITED" -> ColorConversion601LimitRange
      [] colorSpace = "BT601_FULL" -> ColorConversion601FullRange
      [] colorSpace = "BT709_LIMITED" -> ColorConversion709LimitRange
      [] colorSpace = "BT709_FULL" -> ColorConversion709FullRange
      [] colorSpace = "BT2020_LIMITED" -> ColorConversion2020LimitRange
      [] colorSpace = "BT2020_FULL" -> ColorConversion2020FullRange
      [] colorSpace = "JPEG_FULL" -> ColorConversionJPEGFullRange
      [] OTHER -> NoMatrix

\* onSetData with the caches filled by the first draw and never refreshed
onSetDataCachedOnce(colorSpace, alphaStart) ==
    LET newAlpha == effect.alphaStartUniform /\ effect.alphaStartPrev = NoPoint
        newSpace == effect.colorSpacePrev = NoColorSpace
        matrix == uploadedMatrix(colorSpace)
    IN  /\ effect' =
              [effect EXCEPT
                 !.alphaStartPrev = IF newAlpha THEN alphaStart ELSE @,
                 !.AlphaStart = IF newAlpha THEN alphaStart ELSE @,
                 !.colorSpacePrev = IF newSpace THEN colorSpace ELSE @,
                 !.Mat3ColorConversion =
                     IF newSpace /\ matrix # NoMatrix THEN matrix ELSE @,
                 !.data = [colorSpace |-> colorSpace, alphaStart |-> alphaStart,
                           set2f |-> newAlpha,
                           setMatrix3f |-> newSpace /\ matrix # NoMatrix]]
        /\ UNCHANGED <<sequence, pixelBuffer, lastDecodeFrame, call, locker, thread,
                       observed>>

\* effect: the two caches, whether emitCode added the AlphaStart uniform, the
\* values of the program's two uniforms, and what the last call was given and
\* which uploads it made
onSetData(colorSpace, alphaStart) ==
    LET newAlpha == effect.alphaStartUniform /\ alphaStart # effect.alphaStartPrev
        newSpace == colorSpace # effect.colorSpacePrev
        matrix == uploadedMatrix(colorSpace)
    IN  /\ effect' =
              [effect EXCEPT
                 !.alphaStartPrev = IF newAlpha THEN alphaStart ELSE @,
                 !.AlphaStart = IF newAlpha THEN alphaStart ELSE @,
                 !.colorSpacePrev = IF newSpace THEN colorSpace ELSE @,
                 !.Mat3ColorConversion =
                     IF newSpace /\ matrix # NoMatrix THEN matrix ELSE @,
                 !.data = [colorSpace |-> colorSpace, alphaStart |-> alphaStart,
                           set2f |-> newAlpha,
                           setMatrix3f |-> newSpace /\ matrix # NoMatrix]]
        /\ UNCHANGED <<sequence, pixelBuffer, lastDecodeFrame, call, locker, thread,
                       observed>>

\* a program after emitCode, before its first draw
InitEffect ==
    /\ sequence = [f \in Frames |-> [isKeyframe |-> TRUE, bitmaps |-> << >>]]
    /\ pixelBuffer = NewBuffer
    /\ lastDecodeFrame = NoFrame
    /\ call = NoCall
    /\ locker = Unlocked
    /\ thread = NoThreads
    /\ observed = NothingObserved
    /\ effect \in [alphaStartUniform : BOOLEAN,
                   alphaStartPrev : {NoPoint},
                   colorSpacePrev : {NoColorSpace},
                   AlphaStart : {NoPoint},
                   Mat3ColorConversion : {NoMatrix},
                   data : {[colorSpace |-> NoColorSpace, alphaStart |-> NoPoint,
                            set2f |-> FALSE, setMatrix3f |-> FALSE]}]

SetData == \E colorSpace \in ColorSpaceTags, alphaStart \in AlphaStarts :
               onSetData(colorSpace, alphaStart)

SpecEffect == InitEffect /\ [][SetData]_vars

----------------------------------------------------------------------------
(* GLYUVTextureEffect::emitCode: the alpha of a fragment, in exact fractions *)

\* the largest value of an 8-bit sample; the texture lookup gives sample / 255
SampleMax == 255

Samples == 0 .. SampleMax

RECURSIVE gcd(_, _)
gcd(a, b) == IF b = 0 THEN a ELSE gcd(b, a % b)

\* a fraction <<numerator, denominator>> in lowest terms, denominator positive
fraction(n, d) ==
    LET sign == IF d < 0 THEN -1 ELSE 1
        abs == IF n < 0 THEN -n ELSE n
        g == gcd(abs, sign * d)
    IN  <<(sign * n) \div g, (sign * d) \div g>>

minus(p, q) == fraction(p[1] * q[2] - q[1] * p[2], p[2] * q[2])

over(p, q) == fraction(p[1] * q[2], p[2] * q[1])

less(p, q) == p[1] * q[2] < q[1] * p[2]

\* the correction without the clamp
clampNone(x, minVal, maxVal) == x

\* GLSL clamp: min(max(x, minVal), maxVal)
clamp(x, minVal, maxVal) ==
    LET lower == IF less(x, minVal) THEN minVal ELSE x
    IN  IF less(maxVal, lower) THEN maxVal ELSE lower

\* the two statements emitted at lines 72-73, for the texel value yuv_a
correctedAlpha(yuv_a) ==
    clamp(over(minus(yuv_a, fraction(16, SampleMax)),
               minus(fraction(219, SampleMax), fraction(1, SampleMax))),
          fraction(0, 1), fraction(1, 1))

\* the alpha lookup of a fragment (lines 66-68) that did not run yet
NotShaded == << >>

\* the fragment shader's alpha: the lookup of the sample and its correction
emitCodeAlpha ==
    /\ effect.yuv_a = NotShaded
    /\ effect' = [effect EXCEPT
                     !.yuv_a = correctedAlpha(fraction(effect.sample, SampleMax))]
    /\ UNCHANGED <<sequence, pixelBuffer, lastDecodeFrame, call, locker, thread,
                   observed>>

\* a fragment for every value the alpha texel can hold
InitShader ==
    /\ sequence = [f \in Frames |-> [isKeyframe |-> TRUE, bitmaps |-> << >>]]
    /\ pixelBuffer = NewBuffer
    /\ lastDecodeFrame = NoFrame
    /\ call = NoCall
    /\ locker = Unlocked
    /\ thread = NoThreads
    /\ observed = NothingObserved
    /\ effect \in [sample : Samples, yuv_a : {NotShaded}]

SpecShader == InitShader /\ [][emitCodeAlpha]_vars

----------------------------------------------------------------------------
(* What the canvas is compared with *)

\* the reader right after construction with an allocated canvas ("cold")
ColdCall(targetFrame) ==
    makeBuffer(sequence, NewBuffer, NoFrame, targetFrame, NoFailure, FALSE)

\* the pixels of the canvas a decoded patch lies on
RectPixels(b) ==
    { i \in Pixels :
        \E r \in 0 .. (b.height - 1), c \in 0 .. (b.width - 1) :
            i = (b.y + r) * CanvasW + b.x + c }

RECURSIVE PaintPatches(_, _, _)
PaintPatches(bitmap, frame, j) ==
    IF j > Len(sequence[frame].bitmaps) THEN bitmap
    ELSE LET b == sequence[frame].bitmaps[j]
         IN  PaintPatches([i \in Pixels |->
                              IF b.width > 0 /\ i \in RectPixels(b)
                              THEN PatchColor(frame, j) ELSE bitmap[i]],
                          frame, j + 1)

RECURSIVE PaintFrames(_, _, _)
PaintFrames(bitmap, frame, targetFrame) ==
    IF frame > targetFrame THEN bitmap
    ELSE PaintFrames(PaintPatches(bitmap, frame, 1), frame + 1, targetFrame)

\* the nearest key frame at or before a frame, frame 0 when there is none
NearestKeyframe(targetFrame) ==
    LET ks == { k \in 0 .. targetFrame : sequence[k].isKeyframe }
    IN  IF ks = {} THEN 0 ELSE CHOOSE k \in ks : \A l \in ks : l <= k

\* the composite of the frames 0 .. targetFrame: every patch painted over the
\* ones before it, in patch order and frame order. A key frame stands for itself
\* on a cleared canvas, so the composite starts with the last key frame.
Composite(targetFrame) ==
    PaintFrames(eraseAll, NearestKeyframe(targetFrame), targetFrame)

\* the pixels the decoded patches of a frame cover
Covered(frame) ==
    UNION { RectPixels(sequence[frame].bitmaps[j]) :
                j \in 1 .. Len(sequence[frame].bitmaps) }

\* the first patch of a frame that decodes to an image, 0 when there is none
FirstDecoded(frame) ==
    LET js == { j \in 1 .. Len(sequence[frame].bitmaps) :
                    sequence[frame].bitmaps[j].width > 0 }
    IN  IF js = {} THEN 0 ELSE CHOOSE j \in js : \A k \in js : j <= k

Returned == call.result = "buffer"
\* some call was made on a reader that has its canvas
Called == call.result # "none" /\ pixelBuffer.allocated
AfterReturned == call.prevResult = "buffer"

----------------------------------------------------------------------------
(* C1 *)

\* C1: after any successful buffer(F) call the canvas equals the full composite
\* of all patches of the frames 0 .. F, in patch order and frame order.
C1_CanvasIsComposite ==
    Returned => pixelBuffer.pixels = Composite(call.targetFrame)

----------------------------------------------------------------------------
(* C2 *)

\* C2 as stated (on a reader that has its canvas): buffer(F) called twice in succession yields the same raster both
\* times and the second call decodes nothing, returning through the fast path.
C2_TwiceAlwaysFastPath ==
    [][(Called /\ call'.targetFrame = call.targetFrame)
         => (/\ Returned /\ call'.result = "buffer"
             /\ pixelBuffer' = pixelBuffer
             /\ call'.decodes = 0 /\ call'.fastPath)]_vars

\* C2 amended: when buffer(F) returned the buffer, an immediately following
\* buffer(F) returns the same raster, decodes nothing and takes the fast path.
C2_TwiceReturnedIsFastPath ==
    [][(Returned /\ call'.targetFrame = call.targetFrame)
         => (/\ call'.result = "buffer"
             /\ pixelBuffer' = pixelBuffer
             /\ call'.decodes = 0 /\ call'.replayed = {} /\ call'.fastPath)]_vars

C2_Witness ==
    /\ Returned /\ AfterReturned /\ call.prevTarget = call.targetFrame
    /\ call.fastPath /\ pixelBuffer.pixels # eraseAll

----------------------------------------------------------------------------
(* C3 *)

\* a readPixels of the last call returned false
DecodeFailed == call.failed

\* C3: a failed patch decode makes the call return nothing and leaves
\* lastDecodeFrame at none, and the next call for any frame takes no fast path
\* and starts at the nearest key frame at or before its target (or at frame 0).
C3_FailureLeavesStale ==
    [][DecodeFailed
         => (/\ call.result = "null"
             /\ lastDecodeFrame = NoFrame
             /\ ~call'.fastPath
             /\ call'.startFrame = NearestKeyframe(call'.targetFrame)
             /\ call'.replayed # {})]_vars

C3_Witness ==
    /\ call.prevResult = "null" /\ pixelBuffer.allocated /\ lastDecodeFrame # NoFrame
    /\ Returned /\ call.targetFrame > 0 /\ call.startFrame > 0
    /\ call.startFrame = NearestKeyframe(call.targetFrame)

----------------------------------------------------------------------------
(* C6 *)

\* C6: buffer(F) and then buffer(F-k), k > 0, leaves the canvas a single
\* buffer(F-k) on a freshly constructed reader leaves.
C6_BackwardJumpIsCold ==
    (Returned /\ AfterReturned /\ call.prevTarget > call.targetFrame)
        => pixelBuffer = ColdCall(call.targetFrame).bitmap

----------------------------------------------------------------------------
(* C7 *)

FullyCovers(frame) == sequence[frame].isKeyframe /\ Covered(frame) = Pixels

\* C7: for a key frame K whose patches cover the whole canvas, the canvas
\* buffer(K) returns is the one a cold reader returns, whatever calls came before.
C7_KeyframeIndependentOfHistory ==
    (Returned /\ FullyCovers(call.targetFrame))
        => pixelBuffer = ColdCall(call.targetFrame).bitmap

C7_Witness ==
    /\ Returned /\ FullyCovers(call.targetFrame) /\ ~call.fastPath
    /\ AfterReturned /\ call.prevTarget > call.targetFrame
    /\ Len(sequence[call.targetFrame].bitmaps) > 1
    /\ FirstDecoded(call.targetFrame) > 1

----------------------------------------------------------------------------
(* C8 *)

NextFrameNotKey ==
    /\ call'.targetFrame = call.targetFrame + 1
    /\ ~sequence[call'.targetFrame].isKeyframe

\* C8 as stated (on a reader that has its canvas): buffer(F) then buffer(F+1), F+1 no key frame: the second call
\* replays the patches of frame F+1 and of no earlier frame.
C8_NextFrameOnly ==
    [][(Called /\ NextFrameNotKey)
         => call'.replayed = {call'.targetFrame}]_vars

\* C8 amended: the same when the first call returned the buffer.
C8_NextFrameOnlyAfterReturned ==
    [][(Returned /\ NextFrameNotKey)
         => (call'.replayed = {call'.targetFrame}
             /\ call'.startFrame = call'.targetFrame)]_vars

C8_Witness ==
    /\ AfterReturned /\ call.targetFrame = call.prevTarget + 1
    /\ ~sequence[call.targetFrame].isKeyframe
    /\ Returned /\ call.decodes > 0 /\ call.replayed = {call.targetFrame}
    /\ NearestKeyframe(call.targetFrame) < call.targetFrame

----------------------------------------------------------------------------
(* C9 *)

FirstDecodedSmaller(frame) ==
    /\ FirstDecoded(frame) > 0
    /\ LET b == sequence[frame].bitmaps[FirstDecoded(frame)]
       IN  b.width < CanvasW \/ b.height < CanvasH

\* C9: after the replay of a key frame whose first decoded patch is smaller than
\* the canvas, every pixel outside the key frame's patches is transparent.
C9_ClearOnShrink ==
    (Returned /\ sequence[call.targetFrame].isKeyframe
              /\ FirstDecodedSmaller(call.targetFrame))
        => \A i \in Pixels \ Covered(call.targetFrame) :
               pixelBuffer.pixels[i] = Transparent

C9_Witness ==
    /\ Returned /\ sequence[call.targetFrame].isKeyframe
    /\ FirstDecodedSmaller(call.targetFrame)
    /\ Covered(call.targetFrame) # Pixels
    /\ AfterReturned /\ call.prevTarget # call.targetFrame
    /\ Covered(call.prevTarget) = Pixels

----------------------------------------------------------------------------
(* C4 *)

\* C4: buffer(targetFrame) with a target outside the sequence, or on a reader
\* without a canvas, returns no buffer and does not record the invalid target.
C4_InvalidRequestFails ==
    (call.result # "none" /\ (call.targetFrame \notin Frames \/ ~pixelBuffer.allocated))
        => (/\ call.result = "null"
            /\ lastDecodeFrame \in Frames \cup {NoFrame})

----------------------------------------------------------------------------
(* C5 *)

\* a read is torn when it sees a canvas a replay has partly overwritten: neither
\* the canvas the replay started from nor the one it ends with
Torn(o) == o.replaying /\ o.pixels # o.entry /\ o.pixels # o.final

\* C5: with two threads calling buffer(), an observer that reads the canvas
\* through a returned handle never reads a torn canvas.
C5_NoTornRead == observed.seen => ~Torn(observed)

----------------------------------------------------------------------------
(* C10 *)

\* the matrix defined for a colour space and range
DefinedMatrix(colorSpace) ==
    LET space == IF colorSpace \in {"BT601_LIMITED", "BT601_FULL"} THEN "BT601"
                 ELSE IF colorSpace \in {"BT709_LIMITED", "BT709_FULL"} THEN "BT709"
                 ELSE IF colorSpace \in {"BT2020_LIMITED", "BT2020_FULL"} THEN "BT2020"
                 ELSE "JPEG"
        limited == colorSpace \in {"BT601_LIMITED", "BT709_LIMITED", "BT2020_LIMITED"}
        table == [BT601 |-> <<ColorConversion601FullRange, ColorConversion601LimitRange>>,
                  BT709 |-> <<ColorConversion709FullRange, ColorConversion709LimitRange>>,
                  BT2020 |-> <<ColorConversion2020FullRange, ColorConversion2020LimitRange>>,
                  JPEG |-> <<ColorConversionJPEGFullRange, ColorConversionJPEGFullRange>>]
    IN  table[space][IF limited THEN 2 ELSE 1]

\* C10: whenever onSetData uploads a matrix, the tag is one of the seven and the
\* matrix is the one defined for that tag; a recognized tag that differs from
\* the cached one is uploaded; an unrecognized tag uploads nothing and leaves
\* the bound matrix as it was.
C10_MatrixOfTag ==
    [][LET tag == effect'.data.colorSpace
       IN  /\ effect'.data.setMatrix3f
                => (tag \in YUVColorSpaces
                    /\ effect'.Mat3ColorConversion = DefinedMatrix(tag))
           /\ (tag \in YUVColorSpaces /\ tag # effect.colorSpacePrev)
                => effect'.data.setMatrix3f
           /\ ~effect'.data.setMatrix3f
                => effect'.Mat3ColorConversion = effect.Mat3ColorConversion
           /\ tag = UnrecognizedSpace => ~effect'.data.setMatrix3f]_vars

C10_Witness ==
    /\ effect.data.colorSpace = UnrecognizedSpace
    /\ effect.colorSpacePrev = UnrecognizedSpace
    /\ effect.Mat3ColorConversion = ColorConversion709LimitRange

----------------------------------------------------------------------------
(* C11 *)

\* onSetData without the caches: every call uploads the alpha origin when the
\* program has the uniform, and the matrix of the tag when the switch has a
\* case for it; given what is bound, what is bound after the call
boundMatrixWithoutCache(bound, colorSpace) ==
    IF uploadedMatrix(colorSpace) # NoMatrix THEN uploadedMatrix(colorSpace) ELSE bound

boundAlphaStartWithoutCache(bound, alphaStart) ==
    IF effect.alphaStartUniform THEN alphaStart ELSE bound

\* C11: after every onSetData call the matrix and the alpha origin bound on the
\* program are the ones the call would have bound without the caches; both
\* variants start with nothing bound, so they agree after every sequence of calls.
C11_CacheUnobservable ==
    [][/\ effect'.Mat3ColorConversion =
              boundMatrixWithoutCache(effect.Mat3ColorConversion, effect'.data.colorSpace)
       /\ effect'.AlphaStart =
              boundAlphaStartWithoutCache(effect.AlphaStart, effect'.data.alphaStart)]_vars

\* a draw the caches took both uploads from, after draws with other values
C11_Witness ==
    /\ effect.alphaStartUniform
    /\ ~effect.data.set2f /\ ~effect.data.setMatrix3f
    /\ effect.data.colorSpace = "BT2020_FULL"
    /\ effect.Mat3ColorConversion = ColorConversion2020FullRange
    /\ effect.AlphaStart = <<1, 0>> /\ effect.data.alphaStart = <<1, 0>>

----------------------------------------------------------------------------
(* C12 *)

\* the patches of a frame that decode to an image
DecodedPatches(frame) ==
    { j \in 1 .. Len(sequence[frame].bitmaps) : sequence[frame].bitmaps[j].width > 0 }

\* a key frame the replay erases the canvas for
Erases(frame) ==
    /\ sequence[frame].isKeyframe
    /\ FirstDecoded(frame) > 0
    /\ LET b == sequence[frame].bitmaps[FirstDecoded(frame)]
       IN  ~(b.width = CanvasW /\ b.height = CanvasH)

RECURSIVE SumDecoded(_)
SumDecoded(frames) ==
    IF frames = {} THEN 0
    ELSE LET f == CHOOSE f \in frames : TRUE
         IN  Cardinality(DecodedPatches(f)) + SumDecoded(frames \ {f})

\* C12: a patch with no codec is skipped without error. A call on a reader with
\* its canvas, in which no readPixels fails, returns the buffer and records its
\* target whatever empty patches it meets; it calls readPixels for the decoded
\* patches only; a pixel changes only under a decoded patch or by the erase for
\* a decoded patch; and frames of empty patches only leave the canvas as it was.
C12_EmptyPatchSkipped ==
    [][(pixelBuffer.allocated /\ ~call'.fastPath /\ ~call'.failed)
         => (/\ call'.result = "buffer"
             /\ lastDecodeFrame' = call'.targetFrame
             /\ call'.decodes = SumDecoded(call'.replayed)
             /\ \A i \in Pixels :
                    pixelBuffer'.pixels[i] # pixelBuffer.pixels[i]
                      => \E f \in call'.replayed :
                             \/ i \in Covered(f)
                             \/ Erases(f) /\ pixelBuffer'.pixels[i] = Transparent
             /\ (\A f \in call'.replayed : DecodedPatches(f) = {})
                    => pixelBuffer' = pixelBuffer)]_vars

\* a key frame of empty patches only was replayed onto a painted canvas, after a
\* frame with an empty patch before a decoded one
C12_Witness ==
    /\ Returned /\ ~call.fastPath /\ lastDecodeFrame = call.targetFrame
    /\ call.replayed = {call.targetFrame}
    /\ sequence[call.targetFrame].isKeyframe
    /\ Len(sequence[call.targetFrame].bitmaps) > 0
    /\ DecodedPatches(call.targetFrame) = {}
    /\ pixelBuffer.pixels # eraseAll
    /\ AfterReturned /\ FirstDecoded(call.prevTarget) > 1

----------------------------------------------------------------------------
(* C13 *)

\* C13: the corrected alpha of a sample at the maximum, 255/255, is exactly 1
\* and that of a sample at the minimum, 16/255, exactly 0; every corrected
\* alpha lies in 0 .. 1.
C13_AlphaEndpoints ==
    effect.yuv_a # NotShaded
      => (/\ effect.sample = SampleMax => effect.yuv_a = <<1, 1>>
          /\ effect.sample = 16 => effect.yuv_a = <<0, 1>>
          /\ 0 <= effect.yuv_a[1] /\ effect.yuv_a[1] <= effect.yuv_a[2])

\* the fragment of the largest sample was shaded: its alpha was clamped from 239/218
C13_Witness ==
    /\ effect.sample = SampleMax /\ effect.yuv_a = <<1, 1>>
    /\ over(minus(fraction(effect.sample, SampleMax), fraction(16, SampleMax)),
            fraction(218, SampleMax)) = <<239, 218>>

----------------------------------------------------------------------------
(* C14 *)

\* the frames at or before a target the replay may start with: the frame after
\* the one the canvas holds, and the key frames
StartPoints(targetFrame, last) ==
    { s \in 0 .. targetFrame : s = last + 1 \/ sequence[s].isKeyframe }

LargestStartPoint(targetFrame, last) ==
    IF StartPoints(targetFrame, last) = {} THEN 0
    ELSE CHOOSE s \in StartPoints(targetFrame, last) :
             \A r \in StartPoints(targetFrame, last) : r <= s

\* C14: for a target inside the sequence and any lastDecodeFrame, the start
\* frame findStartFrame returns is the largest frame s <= target that is
\* lastDecodeFrame + 1 or a key frame, and 0 when there is no such frame.
C14_StartIsLargestStartPoint ==
    [][(call'.targetFrame \in Frames /\ call'.startFrame # NoFrame)
         => call'.startFrame = LargestStartPoint(call'.targetFrame, lastDecodeFrame)]_vars

\* after buffer(0) the call for the last frame started at the frame after the
\* one held, past a key frame and with no key frame of its own
C14_Witness ==
    /\ call.targetFrame = NumFrames - 1 /\ call.startFrame = call.targetFrame
    /\ call.targetFrame > 0
    /\ ~sequence[call.targetFrame].isKeyframe
    /\ sequence[0].isKeyframe
    /\ call.prevTarget = call.targetFrame - 1 /\ AfterReturned

----------------------------------------------------------------------------
(* C15 *)

\* the threads between taking the lock and their return
Holders == { t \in Callers : thread[t].pc \in {"enter", "frame", "read"} }

OneHolder == Holders = (IF locker = Unlocked THEN {} ELSE {locker})

\* the replay of a thread's call done in one step on the canvas it entered with
AtomicReplay(me, fail, wrote) ==
    replayFrames(sequence,
                 [bitmap |-> me.entry, ok |-> TRUE, decodes |-> 0, replayed |-> {}],
                 me.startFrame, me.targetFrame, fail, wrote)

\* the step is the return of thread t and leaves what the whole call, run in
\* one step on the state the thread found under the lock, leaves
ReturnsAsAtomic(t) ==
    LET me == thread[t]
    IN  CASE me.pc = "enter" ->
               LET r == makeBuffer(sequence, pixelBuffer, lastDecodeFrame,
                                   me.targetFrame, NoFailure, FALSE)
               IN  /\ pixelBuffer' = r.bitmap /\ pixelBuffer' = pixelBuffer
                   /\ lastDecodeFrame' = r.last /\ lastDecodeFrame' = lastDecodeFrame
                   /\ call'.result = r.result
          [] me.pc = "frame" ->
               /\ pixelBuffer'.pixels = AtomicReplay(me, NoFailure, FALSE).bitmap
               /\ lastDecodeFrame' = me.targetFrame
               /\ call'.result = "buffer"
          [] me.pc = "read" ->
               /\ \E wrote \in BOOLEAN :
                      pixelBuffer'.pixels =
                          AtomicReplay(me, <<me.frame, me.j>>, wrote).bitmap
               /\ lastDecodeFrame' = NoFrame
               /\ call'.result = "null"

\* C15: calls from several threads are serialized by the lock. At most one
\* thread is between taking the lock and its return, and it owns the lock; the
\* canvas and lastDecodeFrame change only in a step of the lock's owner; a call
\* starts from lastDecodeFrame as it is under the lock; and every return leaves
\* the canvas and lastDecodeFrame the whole call run in one step leaves, so any
\* interleaving ends as the calls run one after another in the order of the lock.
C15_CallsSerialized ==
    [][/\ OneHolder /\ OneHolder'
       /\ (pixelBuffer' # pixelBuffer \/ lastDecodeFrame' # lastDecodeFrame)
             => (/\ locker # Unlocked
                 /\ thread'[locker] # thread[locker]
                 /\ \A t \in Callers \ {locker} : thread'[t] = thread[t])
       /\ \A t \in Callers :
             /\ (thread[t].pc = "enter" /\ thread'[t].pc = "frame")
                   => (/\ thread'[t].startFrame =
                             findStartFrame(sequence, lastDecodeFrame, thread[t].targetFrame)
                       /\ thread'[t].entry = pixelBuffer.pixels)
             /\ (thread[t].pc # "idle" /\ thread'[t].pc = "idle")
                   => ReturnsAsAtomic(t)]_vars

\* after an earlier call, one thread is in the middle of a replay that has
\* changed the canvas and the other waits for the lock with another target
C15_Witness ==
    /\ locker = "decode" /\ thread["decode"].pc = "read"
    /\ thread["prefetch"].pc = "lock"
    /\ thread["prefetch"].targetFrame # thread["decode"].targetFrame
    /\ thread["decode"].frame > thread["decode"].startFrame
    /\ pixelBuffer.pixels # thread["decode"].entry
    /\ call.result # "none"

----------------------------------------------------------------------------
(* C16 *)

Other(t) == CHOOSE u \in Callers : u # t

\* C16 as stated: every call that starts returns in the end, also a call that
\* waits for the lock while another thread keeps calling.
C16_EveryCallReturns ==
    \A t \in Callers : (thread[t].pc = "lock") ~> (thread[t].pc = "idle")

\* C16 amended: a call that has the lock returns in the end and the lock is
\* free again after it, whatever path the call takes; a call waiting for the
\* lock returns in the end unless the other thread takes the lock again and
\* again.
C16_HolderReturns ==
    /\ \A t \in Callers : (t \in Holders) ~> (thread[t].pc = "idle" /\ locker # t)
    /\ (locker # Unlocked) ~> (locker = Unlocked)
    /\ \A t \in Callers :
          \/ (thread[t].pc = "lock") ~> (thread[t].pc = "idle")
          \/ []<>(thread[Other(t)].pc = "enter")

\* a call has failed in a decode while the other thread waits for the lock,
\* which is free again
C16_Witness ==
    /\ call.failed /\ call.result = "null"
    /\ locker = Unlocked
    /\ thread["decode"].pc = "idle" /\ thread["prefetch"].pc = "lock"
    /\ call.prevResult = "buffer" /\ call.prevTarget # call.targetFrame

----------------------------------------------------------------------------
(* C17 *)

\* C17: on a reader of a static-content sequence, after a buffer() call has
\* returned the canvas with every pixel painted, a later call writes nothing
\* to the canvas: it calls no readPixels and leaves every pixel as it is.
C17_StaticWrittenOnce ==
    [][(/\ staticContent(sequence) /\ Returned
        /\ \A i \in Pixels : pixelBuffer.pixels[i] # Transparent)
         => (call'.decodes = 0 /\ pixelBuffer' = pixelBuffer)]_vars

----------------------------------------------------------------------------
(* C18 *)

\* C18: the canvas is the buffer the constructor made and is never replaced.
\* No call changes which buffer pixelBuffer refers to, and every call that
\* returns the buffer returns that one, whatever its target and the calls
\* before it; only the pixels differ from call to call.
C18_SameHandle ==
    [][/\ pixelBuffer'.handle = pixelBuffer.handle
       /\ pixelBuffer'.allocated = pixelBuffer.allocated
       /\ call'.result = "buffer" => pixelBuffer'.handle = NewBuffer.handle]_vars

\* two replays for different targets returned the buffer, with other pixels
C18_Witness ==
    /\ Returned /\ ~call.fastPath /\ call.decodes > 0
    /\ AfterReturned /\ call.prevTarget # call.targetFrame
    /\ pixelBuffer.handle = NewBuffer.handle
    /\ pixelBuffer.pixels # eraseAll
    /\ pixelBuffer.pixels # Composite(call.prevTarget)

----------------------------------------------------------------------------
(* C19 *)

\* what the replay of one frame makes of a canvas: a key frame whose first
\* decoded patch is not of the canvas's size starts from the erased canvas,
\* every other frame from the canvas as it is; then the patches in order
FrameEffect(bitmap, frame) ==
    PaintPatches(IF Erases(frame) THEN eraseAll ELSE bitmap, frame, 1)

RECURSIVE ReplayEffect(_, _, _)
ReplayEffect(bitmap, frame, targetFrame) ==
    IF frame > targetFrame THEN bitmap
    ELSE ReplayEffect(FrameEffect(bitmap, frame), frame + 1, targetFrame)

\* C19: the replay of a frame that is no key frame erases nothing: also when a
\* read fails, the pixels outside the frame's decoded patches stay as they are.
\* In a key frame the erase comes at most once and before the first decoded
\* patch: every replay that succeeds leaves the canvas that erasing once per
\* such key frame, before its patches, and painting all patches in order leaves.
C19_EraseOnlyBeforeFirstPatch ==
    [][/\ \A f \in Frames :
             (call'.replayed = {f} /\ ~sequence[f].isKeyframe)
               => \A i \in Pixels \ Covered(f) :
                      pixelBuffer'.pixels[i] = pixelBuffer.pixels[i]
       /\ (call'.result = "buffer" /\ ~call'.fastPath)
             => pixelBuffer'.pixels =
                    ReplayEffect(pixelBuffer.pixels, call'.startFrame, call'.targetFrame)]_vars

\* a key frame of two decoded patches, the first smaller than the canvas, was
\* replayed onto a painted canvas: the first patch still shows
C19_Witness ==
    /\ Returned /\ call.replayed = {call.targetFrame}
    /\ sequence[call.targetFrame].isKeyframe
    /\ Cardinality(DecodedPatches(call.targetFrame)) > 1
    /\ Erases(call.targetFrame)
    /\ \E i \in Pixels : pixelBuffer.pixels[i] = PatchColor(call.targetFrame, 1)
    /\ AfterReturned /\ Covered(call.prevTarget) = Pixels
    /\ ~sequence[call.prevTarget].isKeyframe

----------------------------------------------------------------------------
(* C20 *)

\* C20: for a target inside the sequence and every lastDecodeFrame the reader
\* comes to hold, the start frame s lies in 0 .. target. The replay begins at
\* s, goes from a frame to the next one only, reads patches of frames inside
\* the sequence only, and returns the buffer only after the frames s .. target,
\* the target among them.
C20_ReplayInRange ==
    [][\A t \in Callers :
         LET was == thread[t]
             me == thread'[t]
         IN  /\ me.pc \in {"frame", "read"}
                 => (/\ 0 <= me.startFrame /\ me.startFrame <= me.targetFrame
                     /\ me.startFrame <= me.frame /\ me.frame <= me.targetFrame + 1
                     /\ me.pc = "read" => me.frame \in Frames
                     /\ was.pc = "enter" => me.frame = me.startFrame
                     /\ was.pc \in {"frame", "read"}
                           => me.frame \in {was.frame, was.frame + 1})
             /\ (was.pc = "frame" /\ me.pc = "idle")
                 => (/\ was.frame = was.targetFrame + 1
                     /\ call'.replayed = was.startFrame .. was.targetFrame
                     /\ was.targetFrame \in call'.replayed
                     /\ call'.replayed \subseteq Frames)]_vars

\* after earlier calls a replay from frame 0 has come to its target, the last
\* frame, and reads a patch of it
C20_Witness ==
    /\ thread["decode"].pc = "read"
    /\ thread["decode"].targetFrame = NumFrames - 1
    /\ thread["decode"].frame = thread["decode"].targetFrame
    /\ thread["decode"].startFrame = 0
    /\ thread["decode"].frame > 0
    /\ call.prevResult = "buffer"

====
